---- MODULE Spec2Model ----
(***************************************************************************)
(* The NetBox plugin subsystem (netbox/extras/plugins/__init__.py):        *)
(*   - the plugin registry registry['plugins'] and its registrars,         *)
(*   - PluginConfig.ready, which discovers a plugin's extension objects    *)
(*     and hands them to the registrars,                                   *)
(*   - PluginConfig.validate, which checks the NetBox version and the      *)
(*     required settings and applies the default settings.                 *)
(* Three specifications share the variables: Spec drives the registry     *)
(* through the registrars and ready, SpecRegistrars through the registrars *)
(* alone, SpecValidate drives validate.                                    *)
(***************************************************************************)
EXTENDS Integers, Sequences, FiniteSets, TLC

VARIABLES
    registry,       \* registry['plugins']
    plugin,         \* the PluginConfig subclass attributes validate reads
    user_config,    \* the mapping handed to validate (mutated in place)
    last            \* the last call: its name, how it ended, what it found

vars == <<registry, plugin, user_config, last>>

\* Longest list handed to a registrar or found by ready.
MaxLen == 2
\* Most entries the registry holds (the lists of the code grow without bound).
MaxEntries == 2
\* Most release segments of a version string.
MaxVerLen == 2

-----------------------------------------------------------------------------
(* Values *)

\* A Python None, as the value of a string attribute.
None == "None"

\* How a call ended: returned, or raised exc.  what tells the raise
\* statements of one function apart, subject is the object or key it names.
Returned == [exc |-> "none", what |-> "", subject |-> ""]
Raise(exc, what, subject) == [exc |-> exc, what |-> what, subject |-> subject]
Outcome(reg, raised) == [registry |-> reg, raised |-> raised]

\* Candidates for register_template_extensions: what inspect.isclass,
\* issubclass(_, PluginTemplateExtension) and .model say of each.
TemplateCandidates ==
    { [name |-> "SiteContentA",  isclass |-> TRUE,  subclass |-> TRUE,  model |-> "dcim.site"],
      [name |-> "SiteContentB",  isclass |-> TRUE,  subclass |-> TRUE,  model |-> "dcim.site"],
      [name |-> "DeviceContent", isclass |-> TRUE,  subclass |-> TRUE,  model |-> "dcim.device"],
      [name |-> "NoModel",       isclass |-> TRUE,  subclass |-> TRUE,  model |-> None],
      [name |-> "Unrelated",     isclass |-> TRUE,  subclass |-> FALSE, model |-> None],
      [name |-> "AnInstance",    isclass |-> FALSE, subclass |-> FALSE, model |-> "dcim.site"] }

Models == {"dcim.site", "dcim.device"}

\* Candidates for register_menu: PluginMenu instances and another object.
MenuCandidates ==
    { [name |-> "menu",  ismenu |-> TRUE],
      [name |-> "adict", ismenu |-> FALSE] }

\* Candidates for the buttons of a menu item and for register_menu_items.
GoodButton == [name |-> "add",  isbutton |-> TRUE]
BadButton  == [name |-> "astr", isbutton |-> FALSE]

ItemCandidates ==
    { [name |-> "list",   isitem |-> TRUE,  buttons |-> <<>>],
      [name |-> "add",    isitem |-> TRUE,  buttons |-> <<GoodButton>>],
      [name |-> "broken", isitem |-> TRUE,  buttons |-> <<GoodButton, BadButton>>],
      [name |-> "atuple", isitem |-> FALSE, buttons |-> <<>>] }

Schemas == {"AcmeQuery"}
PreferenceSets == {"acme_prefs"}

\* The sequences over S of length at most n.
SeqsUpTo(S, n) == UNION { [1..k -> S] : k \in 0..n }

ClassLists == SeqsUpTo(TemplateCandidates, MaxLen)
ItemLists  == SeqsUpTo(ItemCandidates, MaxLen)

\* Installed plugins: AppConfig.name (dotted, as its segments) and verbose_name.
Plugins ==
    { [name |-> <<"acme">>,            verbose_name |-> "Acme"],
      [name |-> <<"contrib", "beta">>, verbose_name |-> "Beta"] }

Sections == { p.verbose_name : p \in Plugins }

-----------------------------------------------------------------------------
(* The registry *)

EmptyRegistry ==
    [ graphql_schemas     |-> <<>>,
      menus               |-> <<>>,
      menu_items          |-> <<>>,
      preferences         |-> <<>>,
      template_extensions |-> <<>> ]

\* d[k] = v on a dict.
DictSet(d, k, v) == [x \in (DOMAIN d) \cup {k} |-> IF x = k THEN v ELSE d[x]]

\* d[k] on a defaultdict(list), read only.
DefaultGet(d, k) == IF k \in DOMAIN d THEN d[k] ELSE <<>>

\* The number of entries a registry holds: schemas, menus, sections,
\* preference sets and registered template extensions.
Entries(reg) ==
    Len(reg.graphql_schemas) + Len(reg.menus)
    + Cardinality(DOMAIN reg.menu_items) + Cardinality(DOMAIN reg.preferences)
    + Cardinality(UNION { {k} \X DOMAIN reg.template_extensions[k] :
                            k \in DOMAIN reg.template_extensions })

-----------------------------------------------------------------------------
(* Registrars.  Each returns the registry it leaves and how it ended. *)

\* A variant of TemplateExtensionError without the check of model.
TemplateExtensionErrorAnyModel(template_extension) ==
    IF ~template_extension.isclass
    THEN Raise("TypeError", "passed as an instance", template_extension.name)
    ELSE IF ~template_extension.subclass
    THEN Raise("TypeError", "not a subclass", template_extension.name)
    ELSE Returned

\* The three checks register_template_extensions makes of one candidate.
TemplateExtensionError(template_extension) ==
    IF ~template_extension.isclass
    THEN Raise("TypeError", "passed as an instance", template_extension.name)
    ELSE IF ~template_extension.subclass
    THEN Raise("TypeError", "not a subclass", template_extension.name)
    ELSE IF template_extension.model = None
    THEN Raise("TypeError", "no valid model", template_extension.name)
    ELSE Returned

\* A variant of AppendTemplateExtension that replaces the model's list.
OverwriteTemplateExtension(reg, template_extension) ==
    [reg EXCEPT !.template_extensions =
        DictSet(@, template_extension.model, <<template_extension>>)]

\* registry['plugins']['template_extensions'][model].append(template_extension)
AppendTemplateExtension(reg, template_extension) ==
    [reg EXCEPT !.template_extensions =
        DictSet(@, template_extension.model,
                Append(DefaultGet(@, template_extension.model), template_extension))]

\* The loop of register_template_extensions from index i on: the append is
\* in the body of the loop, after the checks of the same candidate.
RECURSIVE TemplateExtensionsFrom(_, _, _)
TemplateExtensionsFrom(reg, class_list, i) ==
    IF i > Len(class_list) THEN Outcome(reg, Returned)
    ELSE LET err == TemplateExtensionError(class_list[i])
         IN  IF err # Returned THEN Outcome(reg, err)
             ELSE TemplateExtensionsFrom(
                      AppendTemplateExtension(reg, class_list[i]), class_list, i + 1)

register_template_extensions(reg, class_list) ==
    TemplateExtensionsFrom(reg, class_list, 1)

register_menu(reg, menu) ==
    IF ~menu.ismenu
    THEN Outcome(reg, Raise("TypeError", "not a PluginMenu", menu.name))
    ELSE Outcome([reg EXCEPT !.menus = Append(@, menu)], Returned)

\* The inner loop of register_menu_items over menu_link.buttons.
RECURSIVE ButtonError(_, _)
ButtonError(buttons, j) ==
    IF j > Len(buttons) THEN Returned
    ELSE IF ~buttons[j].isbutton
    THEN Raise("TypeError", "not a PluginMenuButton", buttons[j].name)
    ELSE ButtonError(buttons, j + 1)

\* The validation loop of register_menu_items from index i on.
RECURSIVE MenuItemsError(_, _)
MenuItemsError(class_list, i) ==
    IF i > Len(class_list) THEN Returned
    ELSE IF ~class_list[i].isitem
    THEN Raise("TypeError", "not a PluginMenuItem", class_list[i].name)
    ELSE LET err == ButtonError(class_list[i].buttons, 1)
         IN  IF err # Returned THEN err
             ELSE MenuItemsError(class_list, i + 1)

\* A variant of StoreMenuItems that merges the list into the section's list.
ExtendMenuItems(reg, section_name, class_list) ==
    [reg EXCEPT !.menu_items =
        DictSet(@, section_name, DefaultGet(@, section_name) \o class_list)]

\* registry['plugins']['menu_items'][section_name] = class_list
StoreMenuItems(reg, section_name, class_list) ==
    [reg EXCEPT !.menu_items = DictSet(@, section_name, class_list)]

register_menu_items(reg, section_name, class_list) ==
    LET err == MenuItemsError(class_list, 1)
    IN  IF err # Returned THEN Outcome(reg, err)
        ELSE Outcome(StoreMenuItems(reg, section_name, class_list), Returned)

register_graphql_schema(reg, graphql_schema) ==
    Outcome([reg EXCEPT !.graphql_schemas = Append(@, graphql_schema)], Returned)

register_user_preferences(reg, plugin_name, preferences) ==
    Outcome([reg EXCEPT !.preferences = DictSet(@, plugin_name, preferences)], Returned)

-----------------------------------------------------------------------------
(* PluginConfig.ready *)

\* What import_object finds at one of the plugin's integration paths: the
\* object there, or nothing (it then returns None).
Found(value)  == [exists |-> TRUE,  value |-> value]
Missing(like) == [exists |-> FALSE, value |-> like]

\* The plugin packages ready is run on: every extension category is absent,
\* present and valid, or present and malformed, independently of the others.
TemplateModules ==
    { Missing(<<>>), Found(<<>>) }
    \cup { Found(<<t>>) : t \in {c \in TemplateCandidates : c.name \in {"SiteContentA", "NoModel"}} }
MenuModules ==
    { Missing(CHOOSE m \in MenuCandidates : ~m.ismenu) }
    \cup { Found(m) : m \in MenuCandidates }
ItemModules ==
    { Missing(<<>>), Found(<<>>) }
    \cup { Found(<<i>>) : i \in {c \in ItemCandidates : c.name \in {"list", "broken"}} }
SchemaModules == { Missing("") } \cup { Found(g) : g \in Schemas }
PreferenceModules == { Missing("") } \cup { Found(u) : u \in PreferenceSets }

\* The default integration paths of PluginConfig.
PathTemplateExtensions == "template_content.template_extensions"
PathMenu               == "navigation.menu"
PathMenuItems          == "navigation.menu_items"
PathGraphqlSchema      == "graphql.schema"
PathUserPreferences    == "preferences.preferences"

Package(te, menu, items, schema, prefs) ==
    (PathTemplateExtensions :> te) @@ (PathMenu :> menu) @@ (PathMenuItems :> items)
    @@ (PathGraphqlSchema :> schema) @@ (PathUserPreferences :> prefs)

\* extras.plugins.utils.import_object: the object at the path, or None.
import_object(package, path) == package[path]

\* "x is not None"
IsNotNone(obj) == obj.exists
\* bool(x) of a PluginMenu or another plain object: any object but None is true.
TruthyObject(obj) == obj.exists
\* bool(x) of a list: None and the empty list are false.
TruthyList(obj) == obj.exists /\ Len(obj.value) > 0

\* self.name.rsplit('.', 1)[-1]
PluginName(self) == self.name[Len(self.name)]

\* ready, statement by statement; a raise of a registrar ends it there, with
\* the registry as the statements before it left it.  The search indexes of
\* its first statements go to the registry of netbox.search, which is no part
\* of registry['plugins'].
ready(reg, self, package) ==
    LET plugin_name == PluginName(self)
        template_extensions == import_object(package, PathTemplateExtensions)
        s1 == IF IsNotNone(template_extensions)
              THEN register_template_extensions(reg, template_extensions.value)
              ELSE Outcome(reg, Returned)
        menu == import_object(package, PathMenu)
        s2 == IF s1.raised # Returned THEN s1
              ELSE IF TruthyObject(menu) THEN register_menu(s1.registry, menu.value)
              ELSE s1
        menu_items == import_object(package, PathMenuItems)
        s3 == IF s2.raised # Returned THEN s2
              ELSE IF TruthyList(menu_items)
              THEN register_menu_items(s2.registry, self.verbose_name, menu_items.value)
              ELSE s2
        graphql_schema == import_object(package, PathGraphqlSchema)
        s4 == IF s3.raised # Returned THEN s3
              ELSE IF IsNotNone(graphql_schema)
              THEN register_graphql_schema(s3.registry, graphql_schema.value)
              ELSE s3
        user_preferences == import_object(package, PathUserPreferences)
        s5 == IF s4.raised # Returned THEN s4
              ELSE IF IsNotNone(user_preferences)
              THEN register_user_preferences(s4.registry, plugin_name, user_preferences.value)
              ELSE s4
    IN  s5

-----------------------------------------------------------------------------
(* The registry as a state machine: one action per entry point. *)

\* The record of the last call: before is the number of registry entries
\* (of settings, for validate) it found; key and given are the section and
\* the list a registrar that returned was given; netbox_version is what
\* validate was given, repeat whether it repeats a validate call that returned.
Call(op, raised, before, key, given, netbox_version, repeat) ==
    [op |-> op, raised |-> raised, before |-> before, key |-> key, given |-> given,
     netbox_version |-> netbox_version, repeat |-> repeat]

NoCall == Call("none", Returned, 0, "", <<>>, <<>>, FALSE)

\* The call leaves registry as out says, if that fits the model's bound.
Does(op, out, key, given) ==
    /\ Entries(out.registry) <= MaxEntries
    /\ registry' = out.registry
    /\ last' = IF out.raised = Returned
               THEN Call(op, Returned, Entries(registry), key, given, <<>>, FALSE)
               ELSE Call(op, out.raised, Entries(registry), "", <<>>, <<>>, FALSE)
    /\ UNCHANGED <<plugin, user_config>>

RegisterTemplateExtensions(class_list) ==
    Does("register_template_extensions",
         register_template_extensions(registry, class_list), "", class_list)

RegisterMenu(menu) ==
    Does("register_menu", register_menu(registry, menu), "", <<>>)

RegisterMenuItems(section_name, class_list) ==
    Does("register_menu_items",
         register_menu_items(registry, section_name, class_list),
         section_name, class_list)

RegisterGraphqlSchema(graphql_schema) ==
    Does("register_graphql_schema", register_graphql_schema(registry, graphql_schema),
         "", <<>>)

RegisterUserPreferences(plugin_name, preferences) ==
    Does("register_user_preferences",
         register_user_preferences(registry, plugin_name, preferences), "", <<>>)

Ready(self, package) ==
    Does("ready", ready(registry, self, package), "", <<>>)

\* A descriptor with no constraints, for the runs that do not call validate.
NoPlugin ==
    [min_version |-> <<>>, max_version |-> <<>>,
     required_settings |-> <<>>, default_settings |-> <<>>]

Init ==
    /\ registry = EmptyRegistry
    /\ plugin = NoPlugin
    /\ user_config = <<>>
    /\ last = NoCall

Next ==
    \/ \E class_list \in ClassLists : RegisterTemplateExtensions(class_list)
    \/ \E menu \in MenuCandidates : RegisterMenu(menu)
    \/ \E section_name \in Sections, class_list \in ItemLists :
            RegisterMenuItems(section_name, class_list)
    \/ \E graphql_schema \in Schemas : RegisterGraphqlSchema(graphql_schema)
    \/ \E self \in Plugins, preferences \in PreferenceSets :
            RegisterUserPreferences(PluginName(self), preferences)
    \/ \E self \in Plugins :
            \E te \in TemplateModules, menu \in MenuModules, items \in ItemModules,
               schema \in SchemaModules, prefs \in PreferenceModules :
                Ready(self, Package(te, menu, items, schema, prefs))

Spec == Init /\ [][Next]_vars

\* The registrars alone.  ready changes the registry only through them, so
\* the registries reached are those of Spec.
NextRegistrars ==
    \/ \E class_list \in ClassLists : RegisterTemplateExtensions(class_list)
    \/ \E menu \in MenuCandidates : RegisterMenu(menu)
    \/ \E section_name \in Sections, class_list \in ItemLists :
            RegisterMenuItems(section_name, class_list)
    \/ \E graphql_schema \in Schemas : RegisterGraphqlSchema(graphql_schema)
    \/ \E self \in Plugins, preferences \in PreferenceSets :
            RegisterUserPreferences(PluginName(self), preferences)

SpecRegistrars == Init /\ [][NextRegistrars]_vars

-----------------------------------------------------------------------------
(* PluginConfig.validate *)

\* The segments of a release.
Digits == {0, 1}

\* Version strings "a.b...", as their release segments; NoVersion is the
\* None of an unset min_version or max_version.
Versions == SeqsUpTo(Digits, MaxVerLen) \ {<<>>}
NoVersion == <<>>

\* The key packaging's Version compares by: the release without its
\* trailing zeros ("1.0" and "1" are the same version).
RECURSIVE StripTrailingZeros(_)
StripTrailingZeros(release) ==
    IF release # <<>> /\ release[Len(release)] = 0
    THEN StripTrailingZeros(SubSeq(release, 1, Len(release) - 1))
    ELSE release

version_parse(v) == StripTrailingZeros(v)

\* a < b on tuples, as Python compares them: by the first index where they
\* differ, and a proper prefix is the smaller.
RECURSIVE TupleLess(_, _, _)
TupleLess(a, b, i) ==
    IF i > Len(a) THEN i <= Len(b)
    ELSE IF i > Len(b) THEN FALSE
    ELSE IF a[i] # b[i] THEN a[i] < b[i]
    ELSE TupleLess(a, b, i + 1)

VersionLess(a, b) == TupleLess(a, b, 1)

\* A variant of VersionError in which max_version itself is rejected.
VersionErrorExclusive(cls, netbox_version) ==
    LET current_version == version_parse(netbox_version)
    IN  IF /\ cls.min_version # NoVersion
           /\ VersionLess(current_version, version_parse(cls.min_version))
        THEN Raise("ImproperlyConfigured", "minimum version", "")
        ELSE IF /\ cls.max_version # NoVersion
                /\ ~VersionLess(current_version, version_parse(cls.max_version))
        THEN Raise("ImproperlyConfigured", "maximum version", "")
        ELSE Returned

\* Enforce version constraints.
VersionError(cls, netbox_version) ==
    LET current_version == version_parse(netbox_version)
    IN  IF /\ cls.min_version # NoVersion
           /\ VersionLess(current_version, version_parse(cls.min_version))
        THEN Raise("ImproperlyConfigured", "minimum version", "")
        ELSE IF /\ cls.max_version # NoVersion
                /\ VersionLess(version_parse(cls.max_version), current_version)
        THEN Raise("ImproperlyConfigured", "maximum version", "")
        ELSE Returned

\* Verify required configuration settings: the loop from index i on.
RECURSIVE RequiredError(_, _, _)
RequiredError(required_settings, config, i) ==
    IF i > Len(required_settings) THEN Returned
    ELSE IF required_settings[i] \notin DOMAIN config
    THEN Raise("ImproperlyConfigured", "required setting", required_settings[i])
    ELSE RequiredError(required_settings, config, i + 1)

\* A variant of ApplyDefaults in which a default replaces a configured value.
RECURSIVE OverrideWithDefaults(_, _, _)
OverrideWithDefaults(items, config, i) ==
    IF i > Len(items) THEN config
    ELSE OverrideWithDefaults(items, DictSet(config, items[i][1], items[i][2]), i + 1)

\* A variant of ApplyDefaults that stops after the first default it inserts.
RECURSIVE ApplyFirstDefault(_, _, _)
ApplyFirstDefault(items, config, i) ==
    IF i > Len(items) THEN config
    ELSE IF items[i][1] \notin DOMAIN config
    THEN DictSet(config, items[i][1], items[i][2])
    ELSE ApplyFirstDefault(items, config, i + 1)

\* Apply default configuration values: the loop over default_settings.items()
\* from index i on.
RECURSIVE ApplyDefaults(_, _, _)
ApplyDefaults(items, config, i) ==
    IF i > Len(items) THEN config
    ELSE IF items[i][1] \notin DOMAIN config
    THEN ApplyDefaults(items, DictSet(config, items[i][1], items[i][2]), i + 1)
    ELSE ApplyDefaults(items, config, i + 1)

\* A variant of validate that applies the defaults before it checks anything.
validate_defaults_first(cls, config, netbox_version) ==
    LET filled == ApplyDefaults(cls.default_settings, config, 1)
        verr == VersionError(cls, netbox_version)
        rerr == RequiredError(cls.required_settings, filled, 1)
    IN  IF verr # Returned THEN [user_config |-> filled, raised |-> verr]
        ELSE [user_config |-> filled, raised |-> rerr]

\* validate: the configuration it leaves and how it ended.
validate(cls, config, netbox_version) ==
    LET verr == VersionError(cls, netbox_version)
        rerr == RequiredError(cls.required_settings, config, 1)
    IN  IF verr # Returned THEN [user_config |-> config, raised |-> verr]
        ELSE IF rerr # Returned THEN [user_config |-> config, raised |-> rerr]
        ELSE [user_config |-> ApplyDefaults(cls.default_settings, config, 1),
              raised |-> Returned]

\* Setting names, the values PLUGINS_CONFIG gives them and their defaults.
Keys == {"api_key", "timeout"}
UserValues == {"xyz"}
DefaultValue == ("api_key" :> "changeme") @@ ("timeout" :> "30")

Range(f) == { f[x] : x \in DOMAIN f }

\* default_settings, a dict, as its items in order: no key twice.
DefaultSettings ==
    { items \in SeqsUpTo({ <<k, DefaultValue[k]>> : k \in Keys }, Cardinality(Keys)) :
        \A i, j \in DOMAIN items : items[i][1] = items[j][1] => i = j }

\* required_settings, a list, here without repetitions.
RequiredSettings ==
    { names \in SeqsUpTo(Keys, Cardinality(Keys)) :
        \A i, j \in DOMAIN names : names[i] = names[j] => i = j }

PluginConfigs ==
    [ min_version : Versions \cup {NoVersion},
      max_version : Versions \cup {NoVersion},
      required_settings : RequiredSettings,
      default_settings : DefaultSettings ]

UserConfigs == UNION { [S -> UserValues] : S \in SUBSET Keys }

Validate(netbox_version) ==
    LET out == validate(plugin, user_config, netbox_version)
    IN  /\ user_config' = out.user_config
        /\ last' = Call("validate", out.raised, Cardinality(DOMAIN user_config),
                        "", <<>>, netbox_version,
                        /\ last.op = "validate"
                        /\ last.raised = Returned
                        /\ last.netbox_version = netbox_version)
        /\ UNCHANGED <<registry, plugin>>

InitValidate ==
    /\ registry = EmptyRegistry
    /\ plugin \in PluginConfigs
    /\ user_config \in UserConfigs
    /\ last = NoCall

NextValidate == \E netbox_version \in Versions : Validate(netbox_version)

SpecValidate == InitValidate /\ [][NextValidate]_vars

-----------------------------------------------------------------------------
(* Properties of the registrars and of ready, checked under Spec *)

Registrars == {"register_template_extensions", "register_menu", "register_menu_items"}

\* C1: a registrar call that raises leaves the whole registry as it was
\* before the call.
C1_FailedRegistrarLeavesRegistry ==
    [][(last'.op \in Registrars /\ last'.raised # Returned) => registry' = registry]_vars

\* C2: when a registrar called by ready raises, the registry holds nothing
\* that this ready call registered: it is as it was before ready.
C2_FailedReadyRegistersNothing ==
    [][(last'.op = "ready" /\ last'.raised # Returned) => registry' = registry]_vars

\* The classes of class_list that declare model k, in list order.
Declaring(class_list, k) ==
    LET Declares(t) == t.model = k
    IN  SelectSeq(class_list, Declares)

\* C6: a register_template_extensions call that returns appends, to the list
\* of every model, the classes of its list that declare the model, in list
\* order, after the entries the list had; nothing else is touched.
C6_AppendsInOrder ==
    [][(last'.op = "register_template_extensions" /\ last'.raised = Returned) =>
        /\ \A k \in Models \cup DOMAIN registry'.template_extensions :
               DefaultGet(registry'.template_extensions, k)
                 = DefaultGet(registry.template_extensions, k)
                     \o Declaring(last'.given, k)
        /\ registry' = [registry EXCEPT
               !.template_extensions = registry'.template_extensions]
      ]_vars

\* A call given [SiteContentB] appended it after the SiteContentA of an
\* earlier call.
C6_Witness ==
    /\ last.op = "register_template_extensions"
    /\ last.raised = Returned
    /\ Len(last.given) = 1
    /\ last.given[1].name = "SiteContentB"
    /\ DOMAIN registry.template_extensions = {"dcim.site"}
    /\ Len(registry.template_extensions["dcim.site"]) = 2
    /\ registry.template_extensions["dcim.site"][1].name = "SiteContentA"
    /\ registry.template_extensions["dcim.site"][2].name = "SiteContentB"

\* C7: a register_menu_items call that returns leaves exactly its list under
\* its section key, whatever was there, and changes no other section and no
\* other category.
C7_LastWriteWins ==
    [][(last'.op = "register_menu_items" /\ last'.raised = Returned) =>
        /\ last'.key \in DOMAIN registry'.menu_items
        /\ registry'.menu_items[last'.key] = last'.given
        /\ DOMAIN registry'.menu_items = DOMAIN registry.menu_items \cup {last'.key}
        /\ \A other \in DOMAIN registry.menu_items \ {last'.key} :
               registry'.menu_items[other] = registry.menu_items[other]
        /\ registry' = [registry EXCEPT !.menu_items = registry'.menu_items]
      ]_vars

\* A call replaced the list of a section that was registered before, while
\* the other section is registered too.
C7_Witness ==
    /\ last.op = "register_menu_items"
    /\ last.raised = Returned
    /\ Entries(registry) = last.before
    /\ Len(last.given) = 1
    /\ DOMAIN registry.menu_items = Sections
    /\ registry.menu_items["Acme"] # registry.menu_items["Beta"]

\* C8: when ready returns, every category whose object does not exist is as
\* it was, and every category whose object exists went to its registrar,
\* whatever its value.
C8_ReadyDispatchesWhatExists ==
    [][(last'.op = "ready" /\ last'.raised = Returned) =>
        \A self \in Plugins, te \in TemplateModules, menu \in MenuModules,
           items \in ItemModules, schema \in SchemaModules, prefs \in PreferenceModules :
            Ready(self, Package(te, menu, items, schema, prefs)) =>
                /\ registry'.template_extensions =
                       IF te.exists
                       THEN register_template_extensions(registry, te.value)
                                .registry.template_extensions
                       ELSE registry.template_extensions
                /\ registry'.menus =
                       IF menu.exists THEN register_menu(registry, menu.value).registry.menus
                       ELSE registry.menus
                /\ registry'.menu_items =
                       IF items.exists
                       THEN register_menu_items(registry, self.verbose_name, items.value)
                                .registry.menu_items
                       ELSE registry.menu_items
                /\ registry'.graphql_schemas =
                       IF schema.exists
                       THEN register_graphql_schema(registry, schema.value)
                                .registry.graphql_schemas
                       ELSE registry.graphql_schemas
                /\ registry'.preferences =
                       IF prefs.exists
                       THEN register_user_preferences(registry, PluginName(self), prefs.value)
                                .registry.preferences
                       ELSE registry.preferences
      ]_vars

\* C10: what the registry holds passed the registrar's checks: each template
\* extension is a PluginTemplateExtension subclass listed under its own model,
\* which is set; each menu is a PluginMenu; each menu item is a PluginMenuItem
\* with PluginMenuButton buttons; the categories are the five of the start.
C10_RegistryWellFormed ==
    /\ DOMAIN registry = DOMAIN EmptyRegistry
    /\ \A k \in DOMAIN registry.template_extensions :
           /\ k # None
           /\ \A i \in DOMAIN registry.template_extensions[k] :
                  LET t == registry.template_extensions[k][i]
                  IN  t.isclass /\ t.subclass /\ t.model = k
    /\ \A i \in DOMAIN registry.menus : registry.menus[i].ismenu
    /\ \A s \in DOMAIN registry.menu_items :
           \A i \in DOMAIN registry.menu_items[s] :
               LET item == registry.menu_items[s][i]
               IN  /\ item.isitem
                   /\ \A j \in DOMAIN item.buttons : item.buttons[j].isbutton

\* A call has just been rejected while a template extension and menu items
\* with a button are registered.
C10_Witness ==
    /\ last.raised # Returned
    /\ registry.template_extensions # <<>>
    /\ \E s \in DOMAIN registry.menu_items :
           \E i \in DOMAIN registry.menu_items[s] :
               registry.menu_items[s][i].buttons # <<>>

-----------------------------------------------------------------------------
(* Properties of validate, checked under SpecValidate *)

\* The rank of a version among the versions: its segments, padded with zeros
\* to MaxVerLen, read as one number.
RECURSIVE Rank(_, _)
Rank(v, i) ==
    IF i > MaxVerLen THEN 0
    ELSE (IF i <= Len(v) THEN v[i] ELSE 0) * (Cardinality(Digits) ^ (MaxVerLen - i))
         + Rank(v, i + 1)

\* netbox_version is older than the plugin's min_version, if that is set.
BelowMin(cls, netbox_version) ==
    cls.min_version # NoVersion /\ Rank(netbox_version, 1) < Rank(cls.min_version, 1)

\* netbox_version is newer than the plugin's max_version, if that is set.
AboveMax(cls, netbox_version) ==
    cls.max_version # NoVersion /\ Rank(netbox_version, 1) > Rank(cls.max_version, 1)

IsVersionError(raised) ==
    /\ raised.exc = "ImproperlyConfigured"
    /\ raised.what \in {"minimum version", "maximum version"}

\* The required settings that config lacks.
Lacking(cls, config) == Range(cls.required_settings) \ DOMAIN config

\* The error names a required setting that config lacks.
NamesLacking(raised, cls, config) ==
    /\ raised.exc = "ImproperlyConfigured"
    /\ raised.what = "required setting"
    /\ raised.subject \in Lacking(cls, config)

\* C3, as stated: whenever user_config lacks a required setting, validate
\* raises the error naming a lacking setting; and whenever validate raises,
\* user_config is as before.
C3_MissingSettingNamed ==
    [][last'.op = "validate" =>
        /\ Lacking(plugin, user_config) # {} => NamesLacking(last'.raised, plugin, user_config)
        /\ last'.raised # Returned => user_config' = user_config
      ]_vars

\* C3, amended: whenever user_config lacks a required setting, validate
\* raises: the version error if the NetBox version is out of the plugin's
\* bounds, the error naming a lacking setting otherwise; and whenever
\* validate raises, user_config is as before.
C3_MissingSettingRejected ==
    [][last'.op = "validate" =>
        /\ Lacking(plugin, user_config) # {} =>
              IF \/ BelowMin(plugin, last'.netbox_version)
                 \/ AboveMax(plugin, last'.netbox_version)
              THEN IsVersionError(last'.raised)
              ELSE NamesLacking(last'.raised, plugin, user_config)
        /\ last'.raised # Returned => user_config' = user_config
      ]_vars

\* validate rejected a configuration for a lacking setting while a default was
\* there to apply.
C3_Witness ==
    /\ last.op = "validate"
    /\ NamesLacking(last.raised, plugin, user_config)
    /\ \E i \in DOMAIN plugin.default_settings :
           plugin.default_settings[i][1] \notin DOMAIN user_config

\* C4: validate ends with the version error exactly when the NetBox version
\* is below min_version or above max_version (an unset bound is never
\* violated, a version equal to a bound is accepted), whatever user_config
\* is; the error is the minimum-version one when the version is below
\* min_version and the maximum-version one otherwise.
C4_VersionBounds ==
    last.op = "validate" =>
        LET below == BelowMin(plugin, last.netbox_version)
            above == AboveMax(plugin, last.netbox_version)
        IN  /\ IsVersionError(last.raised) <=> (below \/ above)
            /\ below => last.raised.what = "minimum version"
            /\ (~below /\ above) => last.raised.what = "maximum version"

\* A plugin with min_version above max_version rejected, with the
\* maximum-version error, a version that is not below its min_version, while a
\* required setting was lacking too.
C4_Witness ==
    /\ last.op = "validate"
    /\ plugin.min_version # NoVersion
    /\ plugin.max_version # NoVersion
    /\ Rank(plugin.min_version, 1) > Rank(plugin.max_version, 1)
    /\ ~BelowMin(plugin, last.netbox_version)
    /\ last.raised.what = "maximum version"
    /\ Lacking(plugin, user_config) # {}

\* config with the default of every default_settings key it lacks.
WithDefaults(cls, config) ==
    LET items == cls.default_settings
        DefaultKeys == { items[i][1] : i \in DOMAIN items }
        DefaultOf(k) == CHOOSE v \in { items[i][2] : i \in DOMAIN items } :
                            \E i \in DOMAIN items : items[i] = <<k, v>>
    IN  [k \in DOMAIN config \cup DefaultKeys |->
            IF k \in DOMAIN config THEN config[k] ELSE DefaultOf(k)]

\* C5: when validate returns, user_config is the user_config of before with
\* the default of every default_settings key it lacked, and nothing else:
\* the settings it had keep their values.
C5_DefaultsFillGaps ==
    [][(last'.op = "validate" /\ last'.raised = Returned) =>
        user_config' = WithDefaults(plugin, user_config)]_vars

\* validate returned after it inserted a default and left a configured
\* setting that has a default at its configured value.
C5_Witness ==
    /\ last.op = "validate"
    /\ last.raised = Returned
    /\ Cardinality(DOMAIN user_config) > last.before
    /\ \E i \in DOMAIN plugin.default_settings :
           LET k == plugin.default_settings[i][1]
           IN  k \in DOMAIN user_config /\ user_config[k] \in UserValues

\* The orders in which the items of a dict can come.
Orders(items) ==
    { p \in [DOMAIN items -> Range(items)] : Range(p) = Range(items) }

\* C9: a validate call that repeats one that returned (same plugin, same
\* NetBox version, on the user_config the first call left) returns too and
\* leaves user_config as it found it; and what a validate call that returns
\* leaves does not depend on the order of the items of default_settings.
C9_ValidateIdempotent ==
    [][last'.op = "validate" =>
        /\ (/\ last.op = "validate"
            /\ last.raised = Returned
            /\ last'.netbox_version = last.netbox_version) =>
               (last'.raised = Returned /\ user_config' = user_config)
        /\ last'.raised = Returned =>
               \A items \in Orders(plugin.default_settings) :
                   validate([plugin EXCEPT !.default_settings = items],
                            user_config, last'.netbox_version).user_config
                     = user_config'
      ]_vars

\* validate returned a second time, on a configuration that holds two
\* defaults.
C9_Witness ==
    /\ last.op = "validate"
    /\ last.repeat
    /\ last.raised = Returned
    /\ Len(plugin.default_settings) = Cardinality(Keys)
    /\ \A k \in Keys : k \in DOMAIN user_config /\ user_config[k] = DefaultValue[k]

====
